---- MODULE Spec2Model ----
(***************************************************************************)
(* HireSense AI (src/app.py): the resume-ranking handler of show_dashboard *)
(* with extract_text_from_pdf and rank_resumes.                            *)
(*                                                                         *)
(* Text is a sequence of one-character strings, so that strip(), the       *)
(* substring test, truthiness and tokenisation are computed on characters. *)
(* A score is a fixed-point integer in units of 10^-6 (ScoreScale = 1.0).  *)
(***************************************************************************)
EXTENDS Integers, Sequences, FiniteSets, TLC

\* Largest number of files the user puts in the uploader.
MaxFiles == 3

\* Number of save_user calls made, by any sessions and in any interleaving.
MaxCalls == 2

\* 1.0 in score units (six decimals of the float64 score are kept).
ScoreScale == 1000000

VARIABLES
  job_description,  \* st.text_area "Job Description" (text)
  uploaded_files,   \* st.file_uploader: sequence of [name, pdf]
  resumes,          \* handler local: texts admitted to the corpus
  file_names,       \* handler local: names parallel to resumes
  error_files,      \* handler local: names of the files reported as failed
  scores,           \* handler local: result of rank_resumes
  ranked_resumes,   \* handler local: sorted (name, score) entries
  results_df,       \* handler local: the results DataFrame, row by row
  history,          \* ranking_history table: rows saved by save_ranking_history
  outcome,          \* what the last click did: none / ranked / insufficient / crash
  file_idx,         \* ghost: upload position of each entry of file_names
  error_idx,        \* ghost: upload position of each entry of error_files
  extracted,        \* ghost: value extract_text_from_pdf returned for each file
  scorer_calls      \* ghost: number of calls of rank_resumes

VARIABLES
  authenticated,    \* st.session_state["authenticated"]
  user_email,       \* st.session_state["user_email"]
  user_name,        \* st.session_state["user_name"]
  current_page,     \* st.session_state["current_page"]
  users,            \* the rows of table users in Resume.db
  calls,            \* the save_user calls of all sessions, each with its position
  writer,           \* the call whose connection holds the write lock, 0 when free
  login_passed      \* ghost: the email authenticate_user last accepted in this session

accountVars == <<authenticated, user_email, user_name, current_page, users,
                 calls, writer, login_passed>>

vars == <<job_description, uploaded_files, resumes, file_names, error_files,
          scores, ranked_resumes, results_df, history, outcome,
          file_idx, error_idx, extracted, scorer_calls,
          authenticated, user_email, user_name, current_page, users,
          calls, writer, login_passed>>

----------------------------------------------------------------------------
\* Python str primitives on character sequences

NL == "\n"

Whitespace == {" ", NL, "\t"}

\* str.lstrip()
RECURSIVE LStrip(_)
LStrip(s) ==
  IF s # <<>> /\ Head(s) \in Whitespace THEN LStrip(Tail(s)) ELSE s

\* str.rstrip()
RECURSIVE RStrip(_)
RStrip(s) ==
  IF s # <<>> /\ s[Len(s)] \in Whitespace
    THEN RStrip(SubSeq(s, 1, Len(s) - 1))
    ELSE s

\* str.strip()
Strip(s) == RStrip(LStrip(s))

\* `sub in s` for strings
Contains(sub, s) ==
  \E k \in 1..(Len(s) - Len(sub) + 1) : SubSeq(s, k, k + Len(sub) - 1) = sub

----------------------------------------------------------------------------
\* Literals of the program

ErrorMarker == <<"E", "r", "r", "o", "r", " ", "e", "x", "t", "r", "a", "c", "t", "i", "n", "g", " ", "t", "e", "x", "t">>

ErrorPrefix == ErrorMarker \o <<":", " ">>

NoReadableText == <<"N", "o", " ", "r", "e", "a", "d", "a", "b", "l", "e", " ", "t", "e", "x", "t", " ", "f", "o", "u", "n", "d", ".">>

\* str(e) of the exception pypdf raises on a damaged file
ExcMessage == <<"E", "O", "F">>

----------------------------------------------------------------------------
\* Inputs: page texts, PDF documents, uploaded files, job descriptions

TxtEmpty == <<>>
TxtBlank == <<" ">>
TxtPyGo == <<"p", "y", " ", "g", "o">>
TxtPy == <<"P", "y">>
TxtGo == <<"g", "o">>
TxtUx == <<"u", "x">>
TxtPyPyUx == <<"p", "y", " ", "p", "y", " ", "u", "x">>
TxtC == <<"c">>
TxtText == <<"t", "e", "x", "t">>

\* A PDF: ok = FALSE when PdfReader / extract_text raises; pages = what
\* page.extract_text() returns for each page, in page order.
PdfCorrupt == [ok |-> FALSE, pages |-> <<>>]
PdfImageOnly == [ok |-> TRUE, pages |-> <<TxtEmpty>>]
PdfBlank == [ok |-> TRUE, pages |-> <<TxtBlank>>]
PdfPyGo == [ok |-> TRUE, pages |-> <<TxtPyGo>>]
PdfTwoPages == [ok |-> TRUE, pages |-> <<TxtPy, TxtEmpty, TxtGo>>]
PdfUx == [ok |-> TRUE, pages |-> <<TxtUx>>]
PdfPyPyUx == [ok |-> TRUE, pages |-> <<TxtPyPyUx>>]
PdfC == [ok |-> TRUE, pages |-> <<TxtC>>]
PdfMarker == [ok |-> TRUE, pages |-> <<ErrorMarker>>]

Files ==
  { [name |-> "a.pdf", pdf |-> PdfCorrupt],
    [name |-> "b.pdf", pdf |-> PdfCorrupt],
    [name |-> "a.pdf", pdf |-> PdfImageOnly],
    [name |-> "b.pdf", pdf |-> PdfBlank],
    [name |-> "a.pdf", pdf |-> PdfPyGo],
    [name |-> "b.pdf", pdf |-> PdfTwoPages],
    [name |-> "c.pdf", pdf |-> PdfUx],
    [name |-> "b.pdf", pdf |-> PdfPyPyUx],
    [name |-> "c.pdf", pdf |-> PdfC],
    [name |-> "a.pdf", pdf |-> PdfMarker] }

JobDescriptions == { TxtEmpty, TxtBlank, TxtPyGo, TxtText, TxtC }

----------------------------------------------------------------------------
\* extract_text_from_pdf

\* the loop over pdf.pages, from the text accumulated so far
RECURSIVE AppendPages(_, _)
AppendPages(pages, text) ==
  IF pages = <<>> THEN text
  ELSE AppendPages(Tail(pages),
                   IF Head(pages) # <<>> THEN text \o Head(pages) \o <<NL>>
                                         ELSE text)

extract_text_from_pdf(file) ==
  IF ~file.pdf.ok
    THEN ErrorPrefix \o ExcMessage
    ELSE LET text == AppendPages(file.pdf.pages, <<>>)
         IN  IF text # <<>> THEN Strip(text) ELSE NoReadableText

----------------------------------------------------------------------------
\* TfidfVectorizer() with its defaults: lowercase=True,
\* token_pattern=(?u)\b\w\w+\b, norm='l2', use_idf=True, smooth_idf=True

LowerLetters ==
  {"a", "b", "c", "d", "e", "f", "g", "h", "i", "j", "k", "l", "m",
   "n", "o", "p", "q", "r", "s", "t", "u", "v", "w", "x", "y", "z"}

\* str.lower() on the upper-case letters that occur in the texts above
Lower(c) ==
  CASE c = "E" -> "e"
    [] c = "F" -> "f"
    [] c = "N" -> "n"
    [] c = "O" -> "o"
    [] c = "P" -> "p"
    [] OTHER -> c

\* \w after lower-casing
IsWordChar(c) == c \in LowerLetters

\* a run of word characters becomes a token when it has two or more
FlushToken(cur, acc) == IF Len(cur) >= 2 THEN Append(acc, cur) ELSE acc

RECURSIVE ScanTokens(_, _, _)
ScanTokens(text, cur, acc) ==
  IF text = <<>> THEN FlushToken(cur, acc)
  ELSE LET c == Lower(Head(text))
       IN  IF IsWordChar(c)
             THEN ScanTokens(Tail(text), Append(cur, c), acc)
             ELSE ScanTokens(Tail(text), <<>>, FlushToken(cur, acc))

\* the analyzer: the tokens of one document, in order
Tokenize(text) == ScanTokens(text, <<>>, <<>>)

TokenSet(text) == {Tokenize(text)[k] : k \in 1..Len(Tokenize(text))}

\* raw term frequency of term t in a token list
TF(toks, t) == Cardinality({k \in 1..Len(toks) : toks[k] = t})

\* the fitted vocabulary of a corpus given as token lists
Vocabulary(corpus) ==
  UNION {{corpus[d][k] : k \in 1..Len(corpus[d])} : d \in 1..Len(corpus)}

\* document frequency of t
DF(corpus, t) ==
  Cardinality({d \in 1..Len(corpus) : TF(corpus[d], t) > 0})

\* smooth idf, ln((1 + n) / (1 + df)) + 1, in tenths, for n documents (row)
\* and document frequency df (column); the float64 value is rounded to one
\* decimal, which keeps idf positive and decreasing in df
IdfTable ==
  << <<10>>,
     <<14, 10>>,
     <<17, 13, 10>>,
     <<19, 15, 12, 10>>,
     <<21, 17, 14, 12, 10>>,
     <<23, 18, 16, 13, 12, 10>>,
     <<24, 20, 17, 15, 13, 11, 10>>,
     <<25, 21, 18, 16, 14, 13, 11, 10>> >>

Idf(corpus, t) == IdfTable[Len(corpus)][DF(corpus, t)]

\* tf-idf weight of term t in document d, before normalisation
Weight(corpus, d, t) == TF(corpus[d], t) * Idf(corpus, t)

\* dot product of the unnormalised rows a and b over the terms in V
RECURSIVE DotOver(_, _, _, _)
DotOver(V, corpus, a, b) ==
  IF V = {} THEN 0
  ELSE LET t == CHOOSE x \in V : TRUE
       IN  Weight(corpus, a, t) * Weight(corpus, b, t)
             + DotOver(V \ {t}, corpus, a, b)

Dot(corpus, a, b) == DotOver(Vocabulary(corpus), corpus, a, b)

\* the first k decimal digits of rem / den, for 0 <= rem < den
RECURSIVE FractionDigits(_, _, _)
FractionDigits(rem, den, k) ==
  IF k = 0 THEN <<>>
  ELSE <<(rem * 10) \div den>>
         \o FractionDigits((rem * 10) % den, den, k - 1)

\* digit-by-digit square root: p is the root so far, r the remainder,
\* digits the remaining decimal digits of the radicand, taken in pairs
RECURSIVE SqrtPairs(_, _, _)
SqrtPairs(digits, p, r) ==
  IF Len(digits) < 2 THEN p
  ELSE LET c == r * 100 + digits[1] * 10 + digits[2]
           d == CHOOSE x \in 0..9 :
                  /\ (20 * p + x) * x <= c
                  /\ \A y \in 0..9 : (20 * p + y) * y <= c => y <= x
       IN  SqrtPairs(SubSeq(digits, 3, Len(digits)), 10 * p + d,
                     c - (20 * p + d) * d)

\* cosine_similarity of rows q and c: dot / (|q| |c|), where a zero row is
\* left as it is by normalize() and so gives 0; six decimals are kept
Cosine(corpus, q, c) ==
  LET dot == Dot(corpus, q, c)
      den == Dot(corpus, q, q) * Dot(corpus, c, c)
  IN  IF den = 0 \/ dot = 0 THEN 0
      ELSE IF dot * dot >= den THEN ScoreScale
      ELSE SqrtPairs(FractionDigits(dot * dot, den, 12), 0, 0)

\* fit_transform raises ValueError("empty vocabulary; ...") when no document
\* of the corpus has a token
EmptyVocabulary(jd, texts) ==
  Vocabulary(<<Tokenize(jd)>> \o [k \in 1..Len(texts) |-> Tokenize(texts[k])]) = {}

\* documents = resumes + [job_description] with vectors[0] still taken as
\* the query: every score is a similarity to the first resume
rank_resumes_query_last(jd, texts) ==
  LET corpus == [k \in 1..Len(texts) |-> Tokenize(texts[k])] \o <<Tokenize(jd)>>
  IN  [k \in 1..Len(texts) |-> Cosine(corpus, 1, k + 1)]

\* rank_resumes: one score per resume, in the order of resumes
rank_resumes(jd, texts) ==
  LET corpus == <<Tokenize(jd)>> \o [k \in 1..Len(texts) |-> Tokenize(texts[k])]
  IN  [k \in 1..Len(texts) |-> Cosine(corpus, 1, k + 1)]

----------------------------------------------------------------------------
\* The ranker: sorted(zip(file_names, scores), key=lambda x: x[1],
\* reverse=True) and the results DataFrame

\* zip(file_names, scores); idx is a ghost field, the upload position of the
\* file the entry came from (the program keeps the name and the score only)
Zip(names, scs, idxs) ==
  [k \in 1..(IF Len(names) <= Len(scs) THEN Len(names) ELSE Len(scs)) |->
     [name |-> names[k], score |-> scs[k], idx |-> idxs[k]]]

\* round-half-to-even of x / unit (round() of a numpy float64)
RoundHalfEven(x, unit) ==
  LET q == x \div unit
      r == x % unit
  IN  IF 2 * r < unit THEN q
      ELSE IF 2 * r > unit THEN q + 1
      ELSE IF q % 2 = 0 THEN q ELSE q + 1

\* a sort key taken from the displayed Raw Score, round(score, 4)
SortKey_rounded(e) == RoundHalfEven(e.score, ScoreScale \div 10000)

\* key=lambda x: x[1]
SortKey(e) == e.score

\* list.reverse()
Reverse(s) == [k \in 1..Len(s) |-> s[Len(s) + 1 - k]]

\* insertion of x into an ascending list, after the entries whose key
\* is not greater (the stable position)
InsertAsc(sorted, x) ==
  LET k == Cardinality({i \in 1..Len(sorted) : SortKey(sorted[i]) <= SortKey(x)})
  IN  SubSeq(sorted, 1, k) \o <<x>> \o SubSeq(sorted, k + 1, Len(sorted))

\* the stable ascending sort of list.sort
RECURSIVE StableSortAsc(_)
StableSortAsc(s) ==
  IF s = <<>> THEN <<>>
  ELSE InsertAsc(StableSortAsc(SubSeq(s, 1, Len(s) - 1)), s[Len(s)])

\* an ascending sort reversed afterwards, sorted(...)[::-1]: ties come out
\* in reverse input order
SortedReverse_flipped(s) == Reverse(StableSortAsc(s))

\* sorted(..., reverse=True): reverse, stable ascending sort, reverse
SortedReverse(s) == Reverse(StableSortAsc(Reverse(s)))

\* range(n): ranks that start at 0
RankColumn_zero(n) == [k \in 1..n |-> k - 1]

\* range(1, n + 1)
RankColumn(n) == [k \in 1..n |-> k]

\* f"{round(score * 100, 1)}%": the percentage in tenths, printed as
\* whole.frac followed by %
MatchScore(score) ==
  LET tenths == RoundHalfEven(score, ScoreScale \div 1000)
  IN  [whole |-> tenths \div 10, frac |-> tenths % 10]

\* round(score, 4), in units of 10^-4
RawScore(score) == RoundHalfEven(score, ScoreScale \div 10000)

\* pd.DataFrame({...}) row by row
MakeResultsDf(ranked) ==
  [k \in 1..Len(ranked) |->
     [Rank |-> RankColumn(Len(ranked))[k],
      ResumeName |-> ranked[k].name,
      MatchScore |-> MatchScore(ranked[k].score),
      RawScore |-> RawScore(ranked[k].score)]]

----------------------------------------------------------------------------
\* Accounts: table users, hash_password, verify_password, save_user,
\* authenticate_user, get_user_profile, update_profile, change_password

\* Python None in a session value (no text is equal to it)
NoneValue == <<"None">>

EmailA == <<"a", "@", "x", ".", "i", "o">>
EmailB == <<"b", "@", "x", ".", "i", "o">>
EmailNoAt == <<"a", "b">>

NameAnn == <<"A", "n", "n">>
TitleHR == <<"H", "R">>

\* what the user can type into the e-mail, name, job title and password boxes
EmailInputs == {<<>>, EmailNoAt, EmailA, EmailB}
NameInputs == {<<>>, NameAnn}
TitleInputs == {<<>>, TitleHR}
CompanyInputs == {<<>>}
PasswordInputs == {"", "pw1", "pw2"}

\* uuid.uuid4().hex
Salts == {"s1", "s2"}

\* datetime.now().strftime(...)
Times == {1, 2}

\* hash_password: f"{salt}${sha256(salt + password)}"; the digest is kept as
\* the pair it was computed from
hash_password(password, salt) == [salt |-> salt, digest |-> <<salt, password>>]

\* verify_password
verify_password(stored_password, provided_password) ==
  stored_password.digest = <<stored_password.salt, provided_password>>

\* SELECT ... FROM users WHERE email = ?
SelectUser(table, email) == {r \in table : r.email = email}

\* a table without PRIMARY KEY on email accepts every row
PrimaryKeyConflict_none(table, email) == FALSE

\* email TEXT PRIMARY KEY: an INSERT with an email that is in the table
\* fails with IntegrityError
PrimaryKeyConflict(table, email) == \E r \in table : r.email = email

\* the row INSERT INTO users VALUES (?, ?, ?, ?, ?, ?, ?) adds
NewUserRow(email, hashed_password, name, current_date) ==
  [email |-> email, password |-> hashed_password, name |-> name,
   job_title |-> <<>>, company |-> <<>>,
   date_joined |-> current_date, last_login |-> current_date]

\* UPDATE users SET ... WHERE email = ?, given the row after the change
UpdateWhere(table, email, changed) ==
  {IF r.email = email THEN changed ELSE r : r \in table}

\* authenticate_user: the value returned
authenticate_user(table, email, password) ==
  \E r \in SelectUser(table, email) : verify_password(r.password, password)

\* get_user_profile: the row as a dict, None when there is no row
get_user_profile(table, email) ==
  IF SelectUser(table, email) = {} THEN NoneValue
  ELSE CHOOSE r \in SelectUser(table, email) : TRUE

\* a save_user call that has not started
IdleCall ==
  [pc |-> "idle", email |-> <<>>, password |-> "", name |-> <<>>,
   row |-> NoneValue, result |-> "None", found |-> {}]

\* the session of a user who logged in as EmailA and is on the dashboard
DashboardSession ==
  /\ authenticated = TRUE
  /\ user_email = EmailA
  /\ user_name = NameAnn
  /\ current_page = "dashboard"
  /\ users = {NewUserRow(EmailA, hash_password("pw1", "s1"), NameAnn, 1)}
  /\ calls = [p \in 1..MaxCalls |-> IdleCall]
  /\ writer = 0
  /\ login_passed = EmailA

----------------------------------------------------------------------------
\* show_dashboard: the handler of the "Rank Resumes" button

NoLocals ==
  [resumes |-> <<>>, file_names |-> <<>>, error_files |-> <<>>,
   file_idx |-> <<>>, error_idx |-> <<>>, extracted |-> <<>>]

\* the loop `for file in uploaded_files`, from file i on
RECURSIVE ProcessFiles(_, _, _)
ProcessFiles(files, i, acc) ==
  IF i > Len(files) THEN acc
  ELSE LET text == extract_text_from_pdf(files[i])
           seen == [acc EXCEPT !.extracted = Append(@, text)]
       IN  IF Contains(ErrorMarker, text)
             THEN ProcessFiles(files, i + 1,
                    [seen EXCEPT !.error_files = Append(@, files[i].name),
                                 !.error_idx = Append(@, i)])
             ELSE ProcessFiles(files, i + 1,
                    [seen EXCEPT !.resumes = Append(@, text),
                                 !.file_names = Append(@, files[i].name),
                                 !.file_idx = Append(@, i)])

Init ==
  /\ job_description = <<>>
  /\ uploaded_files = <<>>
  /\ resumes = <<>>
  /\ file_names = <<>>
  /\ error_files = <<>>
  /\ scores = <<>>
  /\ ranked_resumes = <<>>
  /\ results_df = <<>>
  /\ history = <<>>
  /\ outcome = "none"
  /\ file_idx = <<>>
  /\ error_idx = <<>>
  /\ extracted = <<>>
  /\ scorer_calls = 0
  /\ DashboardSession

\* the user types into the Job Description text area
EditJobDescription ==
  /\ authenticated /\ current_page = "dashboard"
  /\ outcome = "none"
  /\ \E jd \in JobDescriptions : job_description' = jd
  /\ UNCHANGED <<uploaded_files, resumes, file_names, error_files, scores,
                 ranked_resumes, results_df, history, outcome, file_idx,
                 error_idx, extracted, scorer_calls>>
  /\ UNCHANGED accountVars

\* the user adds a file to the uploader
UploadFile ==
  /\ authenticated /\ current_page = "dashboard"
  /\ outcome = "none"
  /\ Len(uploaded_files) < MaxFiles
  /\ \E f \in Files : uploaded_files' = Append(uploaded_files, f)
  /\ UNCHANGED <<job_description, resumes, file_names, error_files, scores,
                 ranked_resumes, results_df, history, outcome, file_idx,
                 error_idx, extracted, scorer_calls>>
  /\ UNCHANGED accountVars

\* save_ranking_history: one more row in ranking_history
save_ranking_history(table, description, results) ==
  Append(table, [description |-> description, results |-> results])

\* the button is enabled when uploaded_files and job_description are truthy;
\* a click runs the whole handler.  A behaviour holds one click: the handler
\* keeps nothing from one run to the next but the rows of ranking_history.
ClickRank ==
  /\ authenticated /\ current_page = "dashboard"
  /\ outcome = "none"
  /\ uploaded_files # <<>>
  /\ job_description # <<>>
  /\ LET acc == ProcessFiles(uploaded_files, 1, NoLocals)
     IN  /\ resumes' = acc.resumes
         /\ file_names' = acc.file_names
         /\ error_files' = acc.error_files
         /\ file_idx' = acc.file_idx
         /\ error_idx' = acc.error_idx
         /\ extracted' = acc.extracted
         /\ IF acc.resumes = <<>>
              THEN \* st.error("No valid resumes to process")
                   /\ outcome' = "insufficient"
                   /\ UNCHANGED <<scores, ranked_resumes, results_df,
                                  history, scorer_calls>>
              ELSE IF EmptyVocabulary(job_description, acc.resumes)
              THEN \* the ValueError of fit_transform leaves the handler
                   /\ outcome' = "crash"
                   /\ scorer_calls' = scorer_calls + 1
                   /\ UNCHANGED <<scores, ranked_resumes, results_df, history>>
              ELSE LET sc == rank_resumes(job_description, acc.resumes)
                       ranked == SortedReverse(Zip(acc.file_names, sc, acc.file_idx))
                       df == MakeResultsDf(ranked)
                   IN  /\ scores' = sc
                       /\ ranked_resumes' = ranked
                       /\ results_df' = df
                       /\ history' = save_ranking_history(history, job_description, df)
                       /\ scorer_calls' = scorer_calls + 1
                       /\ outcome' = "ranked"
  /\ UNCHANGED <<job_description, uploaded_files>>
  /\ UNCHANGED accountVars

Next == EditJobDescription \/ UploadFile \/ ClickRank

Spec == Init /\ [][Next]_vars

----------------------------------------------------------------------------
\* The ranker alone (lines 501-509) on score lists that hold near-ties

RankerNames == {"a.pdf", "b.pdf"}

\* full-precision scores: 0.123449, 0.123450 and 0.123451 differ beyond the
\* fourth decimal only
ScoreSamples == {0, 123449, 123450, 123451, 1000000}

InitRanker ==
  /\ \E n \in 1..MaxFiles :
       /\ file_names \in [1..n -> RankerNames]
       /\ scores \in [1..n -> ScoreSamples]
       /\ file_idx = [k \in 1..n |-> k]
  /\ job_description = TxtPyGo
  /\ uploaded_files = <<>>
  /\ resumes = <<>>
  /\ error_files = <<>>
  /\ ranked_resumes = <<>>
  /\ results_df = <<>>
  /\ history = <<>>
  /\ outcome = "none"
  /\ error_idx = <<>>
  /\ extracted = <<>>
  /\ scorer_calls = 1
  /\ DashboardSession

\* lines 501-509 applied to (file_names, scores)
RankScores ==
  /\ outcome = "none"
  /\ ranked_resumes' = SortedReverse(Zip(file_names, scores, file_idx))
  /\ results_df' = MakeResultsDf(ranked_resumes')
  /\ outcome' = "ranked"
  /\ UNCHANGED <<job_description, uploaded_files, resumes, file_names,
                 error_files, scores, history, file_idx, error_idx,
                 extracted, scorer_calls>>
  /\ UNCHANGED accountVars

NextRanker == RankScores

SpecRanker == InitRanker /\ [][NextRanker]_vars

----------------------------------------------------------------------------
\* Vocabulary of the properties

\* the handler has run
Done == outcome # "none"

NFiles == Len(uploaded_files)

NRanked == Len(ranked_resumes)

\* PdfReader or extract_text raised on file i
StructuralFailure(i) == ~uploaded_files[i].pdf.ok

\* some page of file i has a character that is not whitespace
HasReadableText(i) ==
  \E p \in 1..Len(uploaded_files[i].pdf.pages) :
    Strip(uploaded_files[i].pdf.pages[p]) # <<>>

\* file i decodes but yields no extractable text
NoReadable(i) == uploaded_files[i].pdf.ok /\ ~HasReadableText(i)

\* extraction of file i succeeded: it decodes and has readable text
Succeeded(i) == uploaded_files[i].pdf.ok /\ HasReadableText(i)

\* the ranked entries that came from file i
EntriesOf(i) == {k \in 1..NRanked : ranked_resumes[k].idx = i}

\* the entries of the failure list that came from file i
FailuresOf(i) == {k \in 1..Len(error_idx) : error_idx[k] = i}

\* entry a stands before entry b for the right reason
InOrder(a, b) ==
  \/ ranked_resumes[a].score > ranked_resumes[b].score
  \/ /\ ranked_resumes[a].score = ranked_resumes[b].score
     /\ ranked_resumes[a].idx < ranked_resumes[b].idx

Abs(x) == IF x < 0 THEN -x ELSE x

----------------------------------------------------------------------------
\* C1: the ranked list is ordered by descending full score and, among
\* entries of exactly equal score, by ascending submission order index.
C1_RankOrder ==
  outcome = "ranked" =>
    \A a, b \in 1..NRanked : a < b => InOrder(a, b)

\* a ranking with an exact tie, two different scores, and an input that
\* was not in descending order
C1_Witness ==
  /\ outcome = "ranked"
  /\ \E a, b \in 1..NRanked :
       a # b /\ ranked_resumes[a].score = ranked_resumes[b].score
  /\ \E k \in 1..(Len(scores) - 1) : scores[k] < scores[k + 1]

\* C2: the rank numbers are exactly 1..n down the list, strictly increasing
\* without gaps, and the score never increases from rank i to rank i+1.
C2_RanksAndNoInversion ==
  outcome = "ranked" =>
    /\ Len(results_df) = NRanked
    /\ NRanked = Len(file_names)
    /\ \A k \in 1..Len(results_df) : results_df[k].Rank = k
    /\ \A k \in 1..(Len(results_df) - 1) :
         /\ results_df[k + 1].Rank = results_df[k].Rank + 1
         /\ ranked_resumes[k + 1].score <= ranked_resumes[k].score
         /\ results_df[k + 1].RawScore <= results_df[k].RawScore

\* three ranked entries with a strict drop, from scores that rose in the input
C2_Witness ==
  /\ outcome = "ranked"
  /\ NRanked >= 3
  /\ \E k \in 1..(NRanked - 1) :
       ranked_resumes[k + 1].score < ranked_resumes[k].score
  /\ \E k \in 1..(Len(scores) - 1) : scores[k] < scores[k + 1]

\* C3: every candidate whose extraction succeeded has exactly one score
\* record in the ranking result, is never put on the error list, and the
\* ranked entries are as many as the candidates that were extracted,
\* whatever their text contains.
C3_OneRecordPerExtracted ==
  Done =>
    /\ \A i \in 1..NFiles :
         Succeeded(i) => Cardinality(EntriesOf(i)) = 1 /\ FailuresOf(i) = {}
    /\ NRanked = Cardinality({i \in 1..NFiles : Succeeded(i)})

\* C4: when some documents fail with a structural error and another one
\* succeeds, every document is still processed, each failed document is on
\* the failure list exactly once under its own name and in no ranked entry,
\* and every other document is ranked.
C4_FailuresCollected ==
  ( /\ Done
    /\ \E i \in 1..NFiles : StructuralFailure(i)
    /\ \E j \in 1..NFiles : Succeeded(j) ) =>
    /\ Len(extracted) = NFiles
    /\ \A i \in 1..NFiles :
         IF StructuralFailure(i)
           THEN /\ Cardinality(FailuresOf(i)) = 1
                /\ \A k \in FailuresOf(i) : error_files[k] = uploaded_files[i].name
                /\ EntriesOf(i) = {}
           ELSE Cardinality(EntriesOf(i)) = 1

\* C5: a document that decodes but has no extractable text is excluded from
\* scoring: it is in no ranked entry and its placeholder text is not in the
\* corpus.
C5_NoReadableExcluded ==
  Done =>
    /\ \A i \in 1..NFiles :
         NoReadable(i) =>
           /\ EntriesOf(i) = {}
           /\ \A k \in 1..Len(file_idx) : file_idx[k] # i
    /\ \A k \in 1..Len(resumes) : resumes[k] # NoReadableText

\* C6: when every submitted document fails extraction (none has usable
\* text) the invocation is rejected as insufficient input: no ranking, no
\* call of the scorer, nothing handed to the history store.
C6_AllFailedRejected ==
  ( /\ Done
    /\ \A i \in 1..NFiles : StructuralFailure(i) \/ NoReadable(i) ) =>
    /\ outcome = "insufficient"
    /\ scorer_calls = 0
    /\ ranked_resumes = <<>>
    /\ results_df = <<>>
    /\ history = <<>>

\* C7: a job description that is empty or only whitespace is rejected: no
\* ranking is produced or saved for it.
C7_BlankQueryRejected ==
  ( Done /\ Strip(job_description) = <<>> ) =>
    /\ outcome # "ranked"
    /\ results_df = <<>>
    /\ history = <<>>

\* the failure signals extract_text_from_pdf has
IsFailureSignal(text) ==
  \/ text = NoReadableText
  \/ /\ Len(text) >= Len(ErrorPrefix)
     /\ SubSeq(text, 1, Len(ErrorPrefix)) = ErrorPrefix

\* the texts of the pages that have text, in page order, one newline between
RECURSIVE JoinPages(_)
JoinPages(pages) ==
  IF pages = <<>> THEN <<>>
  ELSE LET rest == JoinPages(Tail(pages))
       IN  IF Head(pages) = <<>> THEN rest
           ELSE IF rest = <<>> THEN Head(pages)
           ELSE Head(pages) \o <<NL>> \o rest

\* C8: extraction returns either a failure signal or a non-empty text that is
\* the pages' texts joined by single newlines; never an empty string.
C8_TextOrFailure ==
  Done =>
    \A i \in 1..Len(extracted) :
      \/ IsFailureSignal(extracted[i])
      \/ /\ extracted[i] # <<>>
         /\ extracted[i] = JoinPages(uploaded_files[i].pdf.pages)

\* C9: the order is decided by the full-precision score: two entries whose
\* scores differ at all are in descending order of the unrounded score even
\* when their displayed values are equal, only exactly equal scores fall back
\* to submission order, and the displayed values are the score x 100 to one
\* decimal and the score to four decimals.
C9_FullPrecisionOrder ==
  outcome = "ranked" =>
    /\ \A a, b \in 1..NRanked :
         a < b =>
           /\ ranked_resumes[a].score >= ranked_resumes[b].score
           /\ ranked_resumes[a].idx > ranked_resumes[b].idx
                => ranked_resumes[a].score > ranked_resumes[b].score
    /\ \A k \in 1..NRanked :
         LET s == ranked_resumes[k].score
             tenths == results_df[k].MatchScore.whole * 10
                         + results_df[k].MatchScore.frac
         IN  /\ results_df[k].MatchScore.frac \in 0..9
             /\ 2 * Abs(tenths * (ScoreScale \div 1000) - s) <= ScoreScale \div 1000
             /\ 2 * Abs(results_df[k].RawScore * (ScoreScale \div 10000) - s)
                  <= ScoreScale \div 10000

\* two entries with equal displayed values and different scores, the better
\* one uploaded later and ranked first
C9_Witness ==
  /\ outcome = "ranked"
  /\ \E a, b \in 1..NRanked :
       /\ a < b
       /\ ranked_resumes[a].score > ranked_resumes[b].score
       /\ results_df[a].RawScore = results_df[b].RawScore
       /\ results_df[a].MatchScore = results_df[b].MatchScore
       /\ ranked_resumes[a].idx > ranked_resumes[b].idx

\* C10: two usable candidates whose vocabularies are disjoint from the
\* query's and from each other's both get the score 0, are both in the
\* ranking, and stand in submission order.
C10_DisjointScoreZero ==
  Done =>
    \A i, j \in 1..NFiles :
      ( /\ i < j
        /\ Succeeded(i)
        /\ Succeeded(j)
        /\ TokenSet(extracted[i]) \cap TokenSet(job_description) = {}
        /\ TokenSet(extracted[j]) \cap TokenSet(job_description) = {}
        /\ TokenSet(extracted[i]) \cap TokenSet(extracted[j]) = {} ) =>
        /\ outcome = "ranked"
        /\ \E a, b \in 1..NRanked :
             /\ EntriesOf(i) = {a}
             /\ EntriesOf(j) = {b}
             /\ ranked_resumes[a].score = 0
             /\ ranked_resumes[b].score = 0
             /\ a < b

----------------------------------------------------------------------------
\* Two invocations on the same documents in a different upload order

\* the permutations of 1..n (one per upload order of n files)
UploadOrders(n) ==
  {p \in [1..n -> 1..n] : \A a, b \in 1..n : p[a] = p[b] => a = b}

\* the upload list in the order p: position k holds the file that was at p[k]
Permuted(files, p) == [k \in 1..Len(files) |-> files[p[k]]]

\* ranked_resumes as the handler computes it from the widget values (the
\* loop of lines 488-494, rank_resumes and the sort); no list when the
\* handler stops before line 501
RankingOf(jd, files) ==
  LET acc == ProcessFiles(files, 1, NoLocals)
  IN  IF acc.resumes = <<>> \/ EmptyVocabulary(jd, acc.resumes) THEN <<>>
      ELSE SortedReverse(Zip(acc.file_names,
                             rank_resumes(jd, acc.resumes), acc.file_idx))

\* The handler on upload lists and job descriptions drawn at the start: a
\* damaged file, a scanned one, a text that holds the failure marker, two
\* texts with the same tokens, and texts with other tokens
PermutedFiles ==
  { [name |-> "a.pdf", pdf |-> PdfCorrupt],
    [name |-> "a.pdf", pdf |-> PdfImageOnly],
    [name |-> "a.pdf", pdf |-> PdfPyGo],
    [name |-> "b.pdf", pdf |-> PdfTwoPages],
    [name |-> "c.pdf", pdf |-> PdfUx],
    [name |-> "b.pdf", pdf |-> PdfPyPyUx],
    [name |-> "a.pdf", pdf |-> PdfMarker] }

PermutedJobDescriptions == { TxtBlank, TxtPyGo, TxtText }

InitPermuted ==
  /\ job_description \in PermutedJobDescriptions
  /\ \E n \in 1..MaxFiles : uploaded_files \in [1..n -> PermutedFiles]
  /\ resumes = <<>>
  /\ file_names = <<>>
  /\ error_files = <<>>
  /\ scores = <<>>
  /\ ranked_resumes = <<>>
  /\ results_df = <<>>
  /\ history = <<>>
  /\ outcome = "none"
  /\ file_idx = <<>>
  /\ error_idx = <<>>
  /\ extracted = <<>>
  /\ scorer_calls = 0
  /\ DashboardSession

NextPermuted == ClickRank

SpecPermuted == InitPermuted /\ [][NextPermuted]_vars

\* how many entries of a ranked list carry the pair (name, score)
PairCount(ranked, name, score) ==
  Cardinality({k \in 1..Len(ranked) :
                 ranked[k].name = name /\ ranked[k].score = score})

\* the place in a ranked list of the entry that came from upload position i
PlaceOf(ranked, i) == CHOOSE k \in 1..Len(ranked) : ranked[k].idx = i

\* C11: ranking the same candidates in a permuted upload order gives the
\* same multiset of (identifier, score) pairs and the same relative order
\* for every two candidates with different scores.
C11_PermutationInvariance ==
  Done =>
    \A p \in UploadOrders(NFiles) :
      LET other == RankingOf(job_description, Permuted(uploaded_files, p))
      IN  /\ Len(other) = NRanked
          /\ \A k \in 1..NRanked :
               PairCount(other, ranked_resumes[k].name, ranked_resumes[k].score)
                 = PairCount(ranked_resumes, ranked_resumes[k].name,
                             ranked_resumes[k].score)
          /\ \A a, b \in 1..Len(other) :
               ( a < b /\ other[a].score # other[b].score ) =>
                 PlaceOf(ranked_resumes, p[other[a].idx])
                   < PlaceOf(ranked_resumes, p[other[b].idx])

\* a ranking with a tie and two different scores, and a permutation of the
\* upload that changes the order of the names
C11_Witness ==
  /\ outcome = "ranked"
  /\ \E a, b \in 1..NRanked :
       ranked_resumes[a].score # ranked_resumes[b].score
  /\ \E a, b \in 1..NRanked :
       a # b /\ ranked_resumes[a].score = ranked_resumes[b].score
  /\ \E p \in UploadOrders(NFiles) :
       LET other == RankingOf(job_description, Permuted(uploaded_files, p))
       IN  \E k \in 1..NRanked : other[k].name # ranked_resumes[k].name

----------------------------------------------------------------------------
\* The session: show_login_page, show_register_page, show_profile_page,
\* render_sidebar and main, one action per button

dashboardVars == <<job_description, uploaded_files, resumes, file_names,
                   error_files, scores, ranked_resumes, results_df, history,
                   outcome, file_idx, error_idx, extracted, scorer_calls>>

sessionVars == <<authenticated, user_email, user_name, current_page>>

\* the four session values, written together by a handler
SetSession(s) ==
  /\ authenticated' = s.authenticated
  /\ user_email' = s.user_email
  /\ user_name' = s.user_name
  /\ current_page' = s.current_page

\* the session values a successful login writes
SessionAfterLogin(login_email, profile) ==
  [authenticated |-> TRUE, user_email |-> login_email,
   user_name |-> profile.name, current_page |-> "dashboard"]

\* a logout that leaves the page where it was
SessionAfterLogout_same_page(page) ==
  [authenticated |-> FALSE, user_email |-> NoneValue,
   user_name |-> NoneValue, current_page |-> page]

\* the session values the Logout button writes
SessionAfterLogout(page) ==
  [authenticated |-> FALSE, user_email |-> NoneValue,
   user_name |-> NoneValue, current_page |-> "login"]

\* a new browser session on an empty database
InitSession ==
  /\ job_description = <<>>
  /\ uploaded_files = <<>>
  /\ resumes = <<>>
  /\ file_names = <<>>
  /\ error_files = <<>>
  /\ scores = <<>>
  /\ ranked_resumes = <<>>
  /\ results_df = <<>>
  /\ history = <<>>
  /\ outcome = "none"
  /\ file_idx = <<>>
  /\ error_idx = <<>>
  /\ extracted = <<>>
  /\ scorer_calls = 0
  /\ authenticated = FALSE
  /\ user_email = NoneValue
  /\ user_name = NoneValue
  /\ current_page = "login"
  /\ users = {}
  /\ calls = [p \in 1..MaxCalls |-> IdleCall]
  /\ writer = 0
  /\ login_passed = NoneValue

\* the Login button
Login ==
  /\ ~authenticated /\ current_page = "login"
  /\ \E login_email \in EmailInputs, login_password \in PasswordInputs, now \in Times :
       IF authenticate_user(users, login_email, login_password)
       THEN /\ users' = UpdateWhere(users, login_email,
                                    [get_user_profile(users, login_email)
                                       EXCEPT !.last_login = now])
            /\ SetSession(SessionAfterLogin(login_email,
                                            get_user_profile(users', login_email)))
            /\ login_passed' = login_email
       ELSE UNCHANGED <<sessionVars, users, login_passed>>
  /\ UNCHANGED <<calls, writer>>
  /\ UNCHANGED dashboardVars

\* the Register button of the login page
GoRegister ==
  /\ ~authenticated /\ current_page = "login"
  /\ current_page' = "register"
  /\ UNCHANGED <<authenticated, user_email, user_name, users, calls, writer,
                 login_passed>>
  /\ UNCHANGED dashboardVars

\* the Register button of the registration page, save_user run to its end
Register ==
  /\ ~authenticated /\ current_page = "register"
  /\ \E reg_email \in EmailInputs, reg_name \in NameInputs,
        reg_password \in PasswordInputs, reg_confirm_password \in PasswordInputs,
        salt \in Salts, current_date \in Times :
       IF reg_email = <<>> \/ reg_password = ""
       THEN UNCHANGED <<current_page, users>>
       ELSE IF ~Contains(<<"@">>, reg_email) \/ ~Contains(<<".">>, reg_email)
       THEN UNCHANGED <<current_page, users>>
       ELSE IF reg_password # reg_confirm_password
       THEN UNCHANGED <<current_page, users>>
       ELSE /\ users' = IF SelectUser(users, reg_email) # {} THEN users
                        ELSE users \cup {NewUserRow(reg_email,
                                                     hash_password(reg_password, salt),
                                                     reg_name, current_date)}
            /\ current_page' = "login"
  /\ UNCHANGED <<authenticated, user_email, user_name, calls, writer, login_passed>>
  /\ UNCHANGED dashboardVars

\* the Back to Login button
BackToLogin ==
  /\ ~authenticated /\ current_page = "register"
  /\ current_page' = "login"
  /\ UNCHANGED <<authenticated, user_email, user_name, users, calls, writer,
                 login_passed>>
  /\ UNCHANGED dashboardVars

\* the Dashboard button of the sidebar
GoDashboard ==
  /\ authenticated
  /\ current_page' = "dashboard"
  /\ UNCHANGED <<authenticated, user_email, user_name, users, calls, writer,
                 login_passed>>
  /\ UNCHANGED dashboardVars

\* the My Profile button of the sidebar
GoProfile ==
  /\ authenticated
  /\ current_page' = "profile"
  /\ UNCHANGED <<authenticated, user_email, user_name, users, calls, writer,
                 login_passed>>
  /\ UNCHANGED dashboardVars

\* the Logout button of the sidebar
Logout ==
  /\ authenticated
  /\ SetSession(SessionAfterLogout(current_page))
  /\ UNCHANGED <<users, calls, writer, login_passed>>
  /\ UNCHANGED dashboardVars

\* the Save Profile button: update_profile, then the name goes to the session
SaveProfile ==
  /\ authenticated /\ current_page = "profile"
  /\ SelectUser(users, user_email) # {}
  /\ \E name \in NameInputs, job_title \in TitleInputs, company \in CompanyInputs :
       /\ users' = UpdateWhere(users, user_email,
                               [get_user_profile(users, user_email)
                                  EXCEPT !.name = name,
                                         !.job_title = job_title,
                                         !.company = company])
       /\ user_name' = name
  /\ UNCHANGED <<authenticated, user_email, current_page, calls, writer, login_passed>>
  /\ UNCHANGED dashboardVars

\* the Update Password button: change_password
UpdatePassword ==
  /\ authenticated /\ current_page = "profile"
  /\ SelectUser(users, user_email) # {}
  /\ \E current_password \in PasswordInputs, new_password \in PasswordInputs,
        confirm_password \in PasswordInputs, salt \in Salts :
       IF current_password = "" \/ new_password = "" \/ confirm_password = ""
       THEN UNCHANGED users
       ELSE IF new_password # confirm_password
       THEN UNCHANGED users
       ELSE IF ~authenticate_user(users, user_email, current_password)
       THEN UNCHANGED users
       ELSE users' = UpdateWhere(users, user_email,
                                 [get_user_profile(users, user_email)
                                    EXCEPT !.password =
                                             hash_password(new_password, salt)])
  /\ UNCHANGED <<sessionVars, calls, writer, login_passed>>
  /\ UNCHANGED dashboardVars

NextSession ==
  \/ Login
  \/ GoRegister
  \/ Register
  \/ BackToLogin
  \/ GoDashboard
  \/ GoProfile
  \/ Logout
  \/ SaveProfile
  \/ UpdatePassword

SpecSession == InitSession /\ [][NextSession]_vars

\* the pages main() serves to a logged-in and to a logged-out session
Pages(auth) == IF auth THEN {"dashboard", "profile"} ELSE {"login", "register"}

\* C12, state part: the session is logged in exactly when its page is the
\* dashboard or the profile, and otherwise its page is login or register; a
\* logged-in session carries the e-mail that passed authentication, which is
\* a registered account
C12_SessionState ==
  /\ authenticated \in BOOLEAN
  /\ current_page \in Pages(authenticated)
  /\ authenticated => /\ user_email = login_passed
                      /\ user_email # NoneValue
                      /\ SelectUser(users, user_email) # {}

\* C12, step part: the step that ends a login leaves user_email and
\* user_name None and the page login
C12_LogoutStep ==
  (authenticated /\ ~authenticated') =>
     /\ user_email' = NoneValue
     /\ user_name' = NoneValue
     /\ current_page' = "login"

\* C12: after any sequence of login, register-navigation, dashboard/profile
\* navigation and logout actions, authenticated is true exactly when the page
\* is dashboard or profile (else the page is login or register), a logged-in
\* session's user_email is the e-mail that passed authentication, and logout
\* resets authenticated to False, user_email and user_name to None and the
\* page to login
C12_SessionInvariant == []C12_SessionState /\ [][C12_LogoutStep]_vars

\* a session that logged in as EmailB, went to its profile, logged out and
\* is now on the registration page
C12_Witness ==
  /\ ~authenticated
  /\ login_passed = EmailB
  /\ user_email = NoneValue /\ user_name = NoneValue
  /\ current_page = "register"
  /\ \E r \in SelectUser(users, EmailB) : r.job_title = TitleHR

----------------------------------------------------------------------------
\* save_user called by several sessions at once, one action per statement
\* that touches the database

\* the e-mails and passwords show_register_page lets through to save_user
SaveUserEmails == {e \in EmailInputs :
                     e # <<>> /\ Contains(<<"@">>, e) /\ Contains(<<".">>, e)}
SaveUserPasswords == PasswordInputs \ {""}

\* a session calls save_user(email, password, name); found is a ghost, the
\* rows the table holds for this e-mail when the call starts
CallSaveUser(p) ==
  /\ calls[p].pc = "idle"
  /\ \E email \in SaveUserEmails, password \in SaveUserPasswords, name \in NameInputs :
       calls' = [calls EXCEPT ![p] =
                   [pc |-> "select", email |-> email, password |-> password,
                    name |-> name, row |-> NoneValue, result |-> "None",
                    found |-> SelectUser(users, email)]]
  /\ UNCHANGED <<sessionVars, users, writer, login_passed>>
  /\ UNCHANGED dashboardVars

\* SELECT email FROM users WHERE email = ?; a row: close and return False
SelectStep(p) ==
  /\ calls[p].pc = "select"
  /\ calls' = [calls EXCEPT ![p] =
                 IF SelectUser(users, calls[p].email) # {}
                 THEN [@ EXCEPT !.pc = "returned", !.result = "False"]
                 ELSE [@ EXCEPT !.pc = "insert"]]
  /\ UNCHANGED <<sessionVars, users, writer, login_passed>>
  /\ UNCHANGED dashboardVars

\* hash_password, datetime.now() and INSERT INTO users: the statement takes
\* the write lock, then the primary key is checked against the table
InsertStep(p) ==
  /\ calls[p].pc = "insert"
  /\ writer = 0
  /\ IF PrimaryKeyConflict(users, calls[p].email)
     THEN /\ calls' = [calls EXCEPT ![p] = [@ EXCEPT !.pc = "raised",
                                                    !.result = "IntegrityError"]]
          /\ UNCHANGED writer
     ELSE /\ \E salt \in Salts, current_date \in Times :
               calls' = [calls EXCEPT ![p] =
                  [@ EXCEPT !.pc = "commit",
                            !.row = NewUserRow(calls[p].email,
                                               hash_password(calls[p].password, salt),
                                               calls[p].name, current_date)]]
          /\ writer' = p
  /\ UNCHANGED <<sessionVars, users, login_passed>>
  /\ UNCHANGED dashboardVars

\* INSERT INTO users while another connection holds the write lock for longer
\* than the connection's timeout: OperationalError, database is locked
LockTimeout(p) ==
  /\ calls[p].pc = "insert"
  /\ writer \notin {0, p}
  /\ calls' = [calls EXCEPT ![p] = [@ EXCEPT !.pc = "raised",
                                             !.result = "OperationalError"]]
  /\ UNCHANGED <<sessionVars, users, writer, login_passed>>
  /\ UNCHANGED dashboardVars

\* conn.commit(); conn.close(); return True
CommitStep(p) ==
  /\ calls[p].pc = "commit"
  /\ users' = users \cup {calls[p].row}
  /\ writer' = 0
  /\ calls' = [calls EXCEPT ![p] = [@ EXCEPT !.pc = "returned", !.result = "True"]]
  /\ UNCHANGED <<sessionVars, login_passed>>
  /\ UNCHANGED dashboardVars

NextStore ==
  \E p \in 1..MaxCalls :
     \/ CallSaveUser(p)
     \/ SelectStep(p)
     \/ InsertStep(p)
     \/ LockTimeout(p)
     \/ CommitStep(p)

SpecStore == InitSession /\ [][NextStore]_vars

\* C13, state part: no two rows of the table have the same e-mail, and a call
\* that started when its e-mail was registered ends only by returning False
C13_StoreState ==
  /\ \A r1, r2 \in users : r1.email = r2.email => r1 = r2
  /\ \A p \in 1..MaxCalls :
       calls[p].found # {} =>
          /\ calls[p].pc \in {"select", "returned"}
          /\ calls[p].pc = "returned" => calls[p].result = "False"

\* C13, step part: no step of a save_user call changes the password hash, the
\* name or the date_joined of a registered account, or removes the account
C13_StoreStep ==
  \A r \in users : \E r2 \in users' :
     /\ r2.email = r.email
     /\ r2.password = r.password
     /\ r2.name = r.name
     /\ r2.date_joined = r.date_joined

\* C13: under any sequence or interleaving of save_user calls the table holds
\* at most one row per e-mail, a save_user call for a registered e-mail never
\* changes the stored password hash, name or date_joined of that account, and
\* a call made when the e-mail is registered returns False
C13_AccountStoreSafety == []C13_StoreState /\ [][C13_StoreStep]_vars

\* two registrations for one e-mail with different passwords both passed the
\* existence check; one committed its row and returned True, the other's
\* INSERT was refused by the primary key
C13_Witness ==
  \E p, q \in 1..MaxCalls :
     /\ calls[p].email = calls[q].email
     /\ calls[p].password # calls[q].password
     /\ calls[p].pc = "returned" /\ calls[p].result = "True"
     /\ calls[q].pc = "raised" /\ calls[q].result = "IntegrityError"
     /\ calls[p].row \in users

====
